---- MODULE Spec2Model ----
(***************************************************************************)
(* Model of server.js: the product catalog backend.  The state is the      *)
(* PostgreSQL database the process talks to (the products table, the seed  *)
(* transaction, the id sequence), the position of the startup code         *)
(* (initDb and the bootstrap promise chain) and the HTTP requests in       *)
(* flight.  Every await in the source is one step of the model; a query    *)
(* may fail at any await (storage error), which the \E ok \in BOOLEAN of   *)
(* the actions draws.                                                      *)
(*                                                                         *)
(* Values: a JavaScript undefined/null and an SQL NULL are both Null; a    *)
(* present value v is Some(v).  Texts on which the code works character by *)
(* character (name, search) are sequences of one-character strings.        *)
(* price is kept in cents (NUMERIC(10,2)).  created_at is not modelled.    *)
(***************************************************************************)
EXTENDS Integers, Sequences, FiniteSets, TLC

\* Bounds of the model.
MaxStartups == 2
MaxRequests == 2

Null == <<>>
Some(v) == <<v>>
Val(o) == o[1]

\* The hardcoded sample list of initDb (price in cents, image abbreviated
\* to the photo id of its URL).
products ==
  << [ext_id |-> 1, name |-> <<"C","l","a","s","s","i","c"," ","W","h","i","t","e"," ","T","-","S","h","i","r","t">>,
      category |-> "tshirts", price |-> 1999, image |-> "photo-1521572163474-6864f9cf17ab", stock |-> 50],
     [ext_id |-> 2, name |-> <<"C","o","t","t","o","n"," ","P","o","l","o"," ","S","h","i","r","t">>,
      category |-> "shirts", price |-> 2999, image |-> "photo-1596755094514-f87e34085b2c", stock |-> 30],
     [ext_id |-> 3, name |-> <<"S","l","i","m"," ","F","i","t"," ","B","l","u","e"," ","J","e","a","n","s">>,
      category |-> "jeans", price |-> 4999, image |-> "photo-1542272454315-7f6d6f9a0cbe", stock |-> 25],
     [ext_id |-> 4, name |-> <<"C","a","s","u","a","l"," ","C","h","i","n","o"," ","P","a","n","t","s">>,
      category |-> "pants", price |-> 3999, image |-> "photo-1473966968600-fa801b869a1a", stock |-> 40],
     [ext_id |-> 5, name |-> <<"G","r","a","p","h","i","c"," ","P","r","i","n","t"," ","T","-","S","h","i","r","t">>,
      category |-> "tshirts", price |-> 2499, image |-> "photo-1503341504253-dff4815485f1", stock |-> 60],
     [ext_id |-> 6, name |-> <<"F","o","r","m","a","l"," ","D","r","e","s","s"," ","S","h","i","r","t">>,
      category |-> "shirts", price |-> 4499, image |-> "photo-1602810318383-e386cc2a3ccf", stock |-> 20],
     [ext_id |-> 7, name |-> <<"B","l","a","c","k"," ","S","k","i","n","n","y"," ","J","e","a","n","s">>,
      category |-> "jeans", price |-> 5499, image |-> "photo-1541099649105-f69ad21f3246", stock |-> 8],
     [ext_id |-> 8, name |-> <<"C","a","r","g","o"," ","P","a","n","t","s">>,
      category |-> "pants", price |-> 4299, image |-> "photo-1624378439575-d8705ad7ae80", stock |-> 28],
     [ext_id |-> 9, name |-> <<"V","-","N","e","c","k"," ","T","-","S","h","i","r","t">>,
      category |-> "tshirts", price |-> 2299, image |-> "photo-1581655353564-df123a1eb820", stock |-> 45],
     [ext_id |-> 10, name |-> <<"D","e","n","i","m"," ","J","a","c","k","e","t">>,
      category |-> "shirts", price |-> 6999, image |-> "photo-1576995853123-5a10305d93c0", stock |-> 15],
     [ext_id |-> 11, name |-> <<"R","i","p","p","e","d"," ","J","e","a","n","s">>,
      category |-> "jeans", price |-> 5999, image |-> "photo-1584370848010-d7fe6bc767ec", stock |-> 22],
     [ext_id |-> 12, name |-> <<"J","o","g","g","e","r"," ","P","a","n","t","s">>,
      category |-> "pants", price |-> 3699, image |-> "photo-1551028719-00167b16eac5", stock |-> 35] >>

NumSeed == Len(products)

(***************************************************************************)
(* The database: rows, constraints, the SERIAL sequence, SQL functions.    *)
(***************************************************************************)

\* An INSERT INTO products (ext_id, name, category, price, image, stock)
\* with the six bound parameters v, given the id the sequence hands out.
NewRow(id, v) ==
  [id |-> id, ext_id |-> v.ext_id, name |-> v.name, category |-> v.category,
   price |-> v.price, image |-> v.image, stock |-> v.stock]

\* name TEXT NOT NULL, price NUMERIC(10,2) NOT NULL.
NotNullViolationNameOnly(v) == v.name = Null
NotNullViolation(v) == v.name = Null \/ v.price = Null

MaxId(tbl) == IF tbl = {} THEN 0 ELSE CHOOSE m \in {r.id : r \in tbl} : \A r \in tbl : r.id <= m

\* id SERIAL: nextval of the sequence; the sequence never goes back, not
\* even when the transaction that drew from it rolls back.
SerialNextFromTable(s, tbl) == MaxId(tbl) + 1
SerialNext(s, tbl) == s + 1

\* An INSERT on the seed connection between BEGIN and COMMIT is pending in
\* the transaction and no other connection sees it.
TxInsertAutocommit(tbl, pending, row) == [table |-> tbl \cup {row}, tx |-> pending]
TxInsert(tbl, pending, row) == [table |-> tbl, tx |-> pending \cup {row}]

UpperChars == <<"A","B","C","D","E","F","G","H","I","J","K","L","M",
                "N","O","P","Q","R","S","T","U","V","W","X","Y","Z">>
LowerChars == <<"a","b","c","d","e","f","g","h","i","j","k","l","m",
                "n","o","p","q","r","s","t","u","v","w","x","y","z">>

LowerChar(c) ==
  IF \E k \in 1..Len(UpperChars) : UpperChars[k] = c
  THEN LowerChars[CHOOSE k \in 1..Len(UpperChars) : UpperChars[k] = c]
  ELSE c

\* String.prototype.toLowerCase and SQL LOWER().
ToLower(s) == [k \in 1..Len(s) |-> LowerChar(s[k])]

\* SQL: s LIKE p.  % matches any run of characters, _ any one character,
\* a backslash takes the next pattern character literally.
RECURSIVE Like(_, _)
Like(s, p) ==
  IF p = <<>> THEN s = <<>>
  ELSE IF Head(p) = "%"
    THEN Like(s, Tail(p)) \/ (s # <<>> /\ Like(Tail(s), p))
  ELSE IF Head(p) = "\\" /\ Len(p) > 1
    THEN s # <<>> /\ Head(s) = p[2] /\ Like(Tail(s), Tail(Tail(p)))
  ELSE IF Head(p) = "_"
    THEN s # <<>> /\ Like(Tail(s), Tail(p))
  ELSE s # <<>> /\ Head(s) = Head(p) /\ Like(Tail(s), Tail(p))

\* ORDER BY id.
RECURSIVE OrderById(_)
OrderById(S) ==
  IF S = {} THEN <<>>
  ELSE LET r == CHOOSE x \in S : \A y \in S : x.id <= y.id
       IN  <<r>> \o OrderById(S \ {r})

(***************************************************************************)
(* State.                                                                  *)
(***************************************************************************)
VARIABLES
  pc,          \* position of the process: the await initDb is at, or
               \* "initDone" (initDb resolved), "listening", "exited"
  startups,    \* number of times the process has been started
  tableExists, \* the products table exists in the database
  table,       \* committed rows of products
  tx,          \* rows inserted by the open seed transaction, not committed
  txOpen,      \* the seed connection has a transaction open
  clientHeld,  \* the client of pool.connect() is checked out
  seq,         \* last value of the id sequence
  count,       \* initDb's local variable count (Null before it is read)
  i,           \* number of sample products the for loop has inserted
               \* (0 outside the loop)
  log,         \* console messages of this run
  schemaOk,    \* the CREATE TABLE statement of this run succeeded
  seedCommits, \* number of seed transactions committed so far
  issued,      \* every id the sequence has handed out so far
  reqs,        \* the HTTP requests of this process, in order of arrival
  served       \* number of requests received so far, by any process

vars == <<pc, startups, tableExists, table, tx, txOpen, clientHeld, seq,
          count, i, log, schemaOk, seedCommits, issued, reqs, served>>

dbVars == <<tableExists, table, tx, txOpen, seq, seedCommits, issued>>

NoRequest == [kind |-> "none", arg |-> Null, st |-> "none", result |-> Null, resp |-> <<>>]

Init ==
  /\ pc = "createTable"
  /\ startups = 1
  /\ tableExists \in BOOLEAN
  /\ table = {}
  /\ tx = {}
  /\ txOpen = FALSE
  /\ clientHeld = FALSE
  /\ seq = 0
  /\ count = Null
  /\ i = 0
  /\ log = {}
  /\ schemaOk = FALSE
  /\ seedCommits = 0
  /\ issued = {}
  /\ reqs = [n \in 1..MaxRequests |-> NoRequest]
  /\ served = 0

(***************************************************************************)
(* Startup: initDb() and the promise chain at the end of server.js.        *)
(***************************************************************************)

\* A rejection of initDb() reaches .catch: 'DB init failed', process.exit(1).
\* The database ends the transaction of a connection that goes away.
Abort ==
  /\ pc' = "exited"
  /\ log' = log \cup {"DB init failed"}
  /\ tx' = {}
  /\ txOpen' = FALSE
  /\ clientHeld' = FALSE

\* Where initDb goes after await pool.query(createTableSQL).
AfterCreateTableIgnoringError(ok) == "count"
AfterCreateTable(ok) == IF ok THEN "count" ELSE "throw"

\* await pool.query(createTableSQL)
CreateTable ==
  /\ pc = "createTable"
  /\ \E ok \in BOOLEAN :
       /\ schemaOk' = ok
       /\ tableExists' = (tableExists \/ ok)
       /\ IF AfterCreateTable(ok) = "throw"
          THEN /\ Abort
               /\ UNCHANGED <<table, seq, seedCommits, issued>>
          ELSE /\ pc' = AfterCreateTable(ok)
               /\ UNCHANGED <<table, tx, txOpen, clientHeld, seq,
                              seedCommits, issued, log>>
  /\ UNCHANGED <<startups, count, i, reqs, served>>

\* if (count === 0)
ShouldSeedBelowTwo(c) == c < 2
ShouldSeed(c) == c = 0

\* await pool.query('SELECT COUNT(*)::int AS cnt FROM products;') and the
\* branch on count; the else branch ends initDb.
CountRows ==
  /\ pc = "count"
  /\ \E ok \in BOOLEAN :
       IF ok /\ tableExists
       THEN LET c == Cardinality(table) IN
            /\ count' = Some(c)
            /\ IF ShouldSeed(c)
               THEN /\ log' = log \cup {"Seeding products table..."}
                    /\ pc' = "connect"
               ELSE /\ log' = log \cup {"skip seeding"}
                    /\ pc' = "initDone"
            /\ UNCHANGED <<dbVars, clientHeld>>
       ELSE /\ Abort
            /\ UNCHANGED <<tableExists, table, seq, seedCommits, issued, count>>
  /\ UNCHANGED <<startups, i, schemaOk, reqs, served>>

\* const client = await pool.connect();  -- outside the try block
Connect ==
  /\ pc = "connect"
  /\ \E ok \in BOOLEAN :
       IF ok
       THEN /\ clientHeld' = TRUE
            /\ pc' = "begin"
            /\ UNCHANGED <<dbVars, log>>
       ELSE /\ Abort
            /\ UNCHANGED <<tableExists, table, seq, seedCommits, issued>>
  /\ UNCHANGED <<startups, count, i, schemaOk, reqs, served>>

\* await client.query('BEGIN'); an error goes to the catch block.
Begin ==
  /\ pc = "begin"
  /\ \E ok \in BOOLEAN :
       /\ txOpen' = ok
       /\ pc' = IF ok THEN "insert" ELSE "rollback"
  /\ i' = 0
  /\ UNCHANGED <<startups, tableExists, table, tx, clientHeld, seq, count,
                 log, schemaOk, seedCommits, issued, reqs, served>>

SeedParams(p) ==
  [ext_id |-> Some(p.ext_id), name |-> Some(p.name), category |-> Some(p.category),
   price |-> Some(p.price), image |-> Some(p.image), stock |-> Some(p.stock)]

\* One iteration of for (const p of products): await client.query(insertText, ...).
\* After the last product the loop ends and COMMIT is next.
SeedInsert ==
  /\ pc = "insert"
  /\ \E ok \in BOOLEAN :
       IF ok
       THEN LET id  == SerialNext(seq, table \cup tx)
                row == NewRow(id, SeedParams(products[i + 1]))
                db  == TxInsert(table, tx, row)
            IN  /\ table' = db.table
                /\ tx' = db.tx
                /\ seq' = id
                /\ issued' = issued \cup {id}
                /\ i' = i + 1
                /\ pc' = IF i + 1 = NumSeed THEN "commit" ELSE "insert"
       ELSE /\ pc' = "rollback"
            /\ UNCHANGED <<table, tx, seq, issued, i>>
  /\ UNCHANGED <<startups, tableExists, txOpen, clientHeld, count, log,
                 schemaOk, seedCommits, reqs, served>>

\* await client.query('COMMIT'); console.log('Seed complete.'); finally
\* client.release().  An error goes to the catch block.
Commit ==
  /\ pc = "commit"
  /\ \E ok \in BOOLEAN :
       IF ok
       THEN /\ table' = table \cup tx
            /\ tx' = {}
            /\ txOpen' = FALSE
            /\ seedCommits' = seedCommits + 1
            /\ log' = log \cup {"Seed complete."}
            /\ clientHeld' = FALSE
            /\ i' = 0
            /\ pc' = "initDone"
       ELSE /\ pc' = "rollback"
            /\ UNCHANGED <<table, tx, txOpen, seedCommits, log, clientHeld, i>>
  /\ UNCHANGED <<startups, tableExists, seq, count, schemaOk,
                 issued, reqs, served>>

\* catch (err) { await client.query('ROLLBACK'); console.error(...) }
\* finally { client.release() }.  A failing ROLLBACK throws out of the
\* catch block: finally releases the client and initDb rejects.
Rollback ==
  /\ pc = "rollback"
  /\ \E ok \in BOOLEAN :
       IF ok
       THEN /\ tx' = {}
            /\ txOpen' = FALSE
            /\ log' = log \cup {"Error seeding products:"}
            /\ clientHeld' = FALSE
            /\ pc' = "initDone"
       ELSE Abort
  /\ i' = 0
  /\ UNCHANGED <<startups, tableExists, table, seq, count, schemaOk,
                 seedCommits, issued, reqs, served>>

\* .then(() => app.listen(...)) runs once the promise of initDb() is
\* fulfilled.
InitDbFulfilledEarly(p) == p \in {"initDone", "insert", "commit"}
InitDbFulfilled(p) == p = "initDone"

Listen ==
  /\ InitDbFulfilled(pc)
  /\ pc' = "listening"
  /\ log' = log \cup {"Server started"}
  /\ UNCHANGED <<startups, dbVars, clientHeld, count, i, schemaOk, reqs, served>>

InFlight(n) == reqs[n].st \in {"query", "settled"}

\* The process is started again (node server.js) after it exited or was
\* stopped while idle; the database keeps its content, the new process has
\* served no request yet.
Restart ==
  /\ pc \in {"exited", "listening"}
  /\ \A n \in 1..MaxRequests : ~InFlight(n)
  /\ startups < MaxStartups
  /\ startups' = startups + 1
  /\ pc' = "createTable"
  /\ count' = Null
  /\ i' = 0
  /\ log' = {}
  /\ schemaOk' = FALSE
  /\ tx' = {}
  /\ txOpen' = FALSE
  /\ clientHeld' = FALSE
  /\ reqs' = [n \in 1..MaxRequests |-> NoRequest]
  /\ UNCHANGED <<tableExists, table, seq, seedCommits, issued, served>>

(***************************************************************************)
(* The request handlers.                                                   *)
(***************************************************************************)

\* JavaScript truthiness of a string, a text and a number.
TruthyStr(o) == o # Null /\ Val(o) # ""
TruthyText(o) == o # Null /\ Len(Val(o)) > 0
TruthyNum(o) == o # Null /\ Val(o) # 0

\* app.get('/api/products'): the where and params arrays, kept together as
\* one list of conditions with their bound parameter.
BuildWhere(q) ==
  LET byCategory ==
        IF TruthyStr(q.category) /\ q.category # Some("all")
        THEN <<[cond |-> "category = $", param |-> Val(q.category)]>>
        ELSE <<>>
      bySearch ==
        IF TruthyText(q.search)
        THEN <<[cond |-> "LOWER(name) LIKE $",
                param |-> <<"%">> \o ToLower(Val(q.search)) \o <<"%">>]>>
        ELSE <<>>
  IN  byCategory \o bySearch

\* WHERE c1 AND c2 ... evaluated on a row (a NULL category equals nothing).
RowMatches(r, where) ==
  \A k \in 1..Len(where) :
    IF where[k].cond = "category = $"
    THEN r.category = Some(where[k].param)
    ELSE Like(ToLower(Val(r.name)), where[k].param)

\* SELECT id, ext_id, name, category, price, image, stock FROM products
\* [WHERE ...] ORDER BY id
Select(tbl, where) == OrderById({r \in tbl : RowMatches(r, where)})

\* app.post('/api/products'): the six bound parameters of the INSERT.
InsertParams(b) ==
  [ext_id   |-> IF TruthyNum(b.ext_id) THEN b.ext_id ELSE Null,
   name     |-> b.name,
   category |-> b.category,
   price    |-> b.price,
   image    |-> b.image,
   stock    |-> IF TruthyNum(b.stock) THEN b.stock ELSE Some(0)]

FetchFailed  == [status |-> 500, rows |-> <<>>, error |-> "Failed to fetch products"]
CreateFailed == [status |-> 500, rows |-> <<>>, error |-> "Failed to create product"]

\* What the handler sends once its query has settled: res.json(rows),
\* res.status(201).json(rows[0]), or the catch block's 500.
Response(kind, result) ==
  IF kind = "GET"
  THEN IF result.ok THEN [status |-> 200, rows |-> result.rows, error |-> ""]
       ELSE FetchFailed
  ELSE IF result.ok THEN [status |-> 201, rows |-> result.rows, error |-> ""]
       ELSE CreateFailed

\* The catch block of a handler answers and the process keeps running.
AfterHandlerErrorCrash == "exited"
AfterHandlerError == "listening"

\* Inputs: query strings of GET and JSON bodies of POST.
Shirt == <<"s","h","i","r","t">>

Queries ==
  { [category |-> Null,            search |-> Null],
    [category |-> Some("all"),     search |-> Null],
    [category |-> Some("tshirts"), search |-> Null],
    [category |-> Some("Tshirts"), search |-> Null],
    [category |-> Some(""),        search |-> Null],
    [category |-> Null,            search |-> Some(Shirt)],
    [category |-> Null,            search |-> Some(<<"S","H","I","R","T">>)],
    [category |-> Null,            search |-> Some(<<"_">>)],
    [category |-> Null,            search |-> Some(<<>>)],
    [category |-> Some("shirts"),  search |-> Some(Shirt)],
    [category |-> Some("all"),     search |-> Some(<<"t","e","e">>)] }

Bodies ==
  { [name |-> Some(<<"H","a","t">>), category |-> Some("shirts"), price |-> Some(500),
     image |-> Some("hat.png"), stock |-> Some(3), ext_id |-> Some(7)],
    [name |-> Some(<<"T","e","e">>), category |-> Some("tshirts"), price |-> Some(100),
     image |-> Null, stock |-> Null, ext_id |-> Null],
    [name |-> Null, category |-> Some("hats"), price |-> Some(100),
     image |-> Null, stock |-> Some(3), ext_id |-> Null],
    [name |-> Some(<<"C","a","p">>), category |-> Null, price |-> Null,
     image |-> Null, stock |-> Null, ext_id |-> Some(7)],
    [name |-> Some(<<"B","a","g">>), category |-> Some(""), price |-> Some(0),
     image |-> Null, stock |-> Some(0), ext_id |-> Some(0)] }

\* The inputs the requests of the startup specification draw from: a
\* listing without and with filters, a valid and an invalid create.
SomeQueries == {q \in Queries : q.category \in {Null, Some("shirts")}
                                 /\ q.search \in {Null, Some(Shirt)}
                                 /\ (q.category = Null <=> q.search = Null)}
SomeBodies == {b \in Bodies : b.ext_id = Null}

Arrived == {n \in 1..MaxRequests : reqs[n].kind # "none"}

\* A request reaches its handler, which runs up to await pool.query(...).
Receive(Qs, Bs) ==
  /\ pc = "listening"
  /\ served < MaxRequests
  /\ served' = served + 1
  /\ LET n == Cardinality(Arrived) + 1 IN
       \/ \E q \in Qs :
            reqs' = [reqs EXCEPT ![n] =
                       [kind |-> "GET", arg |-> q, st |-> "query",
                        result |-> Null, resp |-> <<>>]]
       \/ \E b \in Bs :
            reqs' = [reqs EXCEPT ![n] =
                       [kind |-> "POST", arg |-> b, st |-> "query",
                        result |-> Null, resp |-> <<>>]]
  /\ UNCHANGED <<pc, startups, dbVars, clientHeld, count, i, log, schemaOk>>

Failure == [ok |-> FALSE, rows |-> <<>>]

\* The database runs the SELECT of a GET (or the query fails).
GetQuery(n) ==
  /\ pc = "listening"
  /\ reqs[n].kind = "GET"
  /\ reqs[n].st = "query"
  /\ \E ok \in BOOLEAN :
       reqs' = [reqs EXCEPT ![n].st = "settled",
                            ![n].result =
                               IF ok /\ tableExists
                               THEN [ok |-> TRUE,
                                     rows |-> Select(table, BuildWhere(reqs[n].arg))]
                               ELSE Failure]
  /\ UNCHANGED <<pc, startups, dbVars, clientHeld, count, i, log, schemaOk, served>>

\* The database runs INSERT ... RETURNING * of a POST (or the query fails).
\* The id is drawn before the NOT NULL constraints are checked.
PostQuery(n) ==
  /\ pc = "listening"
  /\ reqs[n].kind = "POST"
  /\ reqs[n].st = "query"
  /\ \E ok \in BOOLEAN :
       IF ok /\ tableExists
       THEN LET v   == InsertParams(reqs[n].arg)
                id  == SerialNext(seq, table)
                row == NewRow(id, v)
            IN  /\ seq' = id
                /\ issued' = issued \cup {id}
                /\ IF NotNullViolation(v)
                   THEN /\ table' = table
                        /\ reqs' = [reqs EXCEPT ![n].st = "settled",
                                                ![n].result = Failure]
                   ELSE /\ table' = table \cup {row}
                        /\ reqs' = [reqs EXCEPT ![n].st = "settled",
                                                ![n].result =
                                                   [ok |-> TRUE, rows |-> <<row>>]]
       ELSE /\ reqs' = [reqs EXCEPT ![n].st = "settled", ![n].result = Failure]
            /\ UNCHANGED <<seq, issued, table>>
  /\ UNCHANGED <<pc, startups, tableExists, tx, txOpen, seedCommits,
                 clientHeld, count, i, log, schemaOk, served>>

\* The handler resumes after its await and sends the response.
Respond(n) ==
  /\ pc = "listening"
  /\ reqs[n].st = "settled"
  /\ reqs' = [reqs EXCEPT ![n].st = "done",
                          ![n].resp = Append(@, Response(reqs[n].kind, reqs[n].result))]
  /\ pc' = IF reqs[n].result.ok THEN pc ELSE AfterHandlerError
  /\ UNCHANGED <<startups, dbVars, clientHeld, count, i, log, schemaOk, served>>

Next ==
  \/ CreateTable
  \/ CountRows
  \/ Connect
  \/ Begin
  \/ SeedInsert
  \/ Commit
  \/ Rollback
  \/ Listen
  \/ Restart
  \/ Receive(SomeQueries, SomeBodies)
  \/ \E n \in 1..MaxRequests : GetQuery(n)
  \/ \E n \in 1..MaxRequests : PostQuery(n)
  \/ \E n \in 1..MaxRequests : Respond(n)

Spec == Init /\ [][Next]_vars

(***************************************************************************)
(* The request handlers on their full input sets: a process that is        *)
(* listening after its first startup found the table empty and ran the     *)
(* seed transaction through its twelve inserts; COMMIT succeeded (the      *)
(* twelve sample rows are there) or failed and was rolled back (the table  *)
(* is empty, the sequence stands at twelve all the same).                  *)
(***************************************************************************)
SeedTable == {NewRow(k, SeedParams(products[k])) : k \in 1..NumSeed}

InitApi ==
  /\ pc = "listening"
  /\ startups = 1
  /\ tableExists = TRUE
  /\ \E committed \in BOOLEAN :
       /\ table = IF committed THEN SeedTable ELSE {}
       /\ seedCommits = IF committed THEN 1 ELSE 0
       /\ log = {"Seeding products table...", "Server started",
                 IF committed THEN "Seed complete." ELSE "Error seeding products:"}
  /\ tx = {}
  /\ txOpen = FALSE
  /\ clientHeld = FALSE
  /\ seq = NumSeed
  /\ count = Some(0)
  /\ i = 0
  /\ schemaOk = TRUE
  /\ issued = 1..NumSeed
  /\ reqs = [n \in 1..MaxRequests |-> NoRequest]
  /\ served = 0

NextApi ==
  \/ Receive(Queries, Bodies)
  \/ \E n \in 1..MaxRequests : GetQuery(n)
  \/ \E n \in 1..MaxRequests : PostQuery(n)
  \/ \E n \in 1..MaxRequests : Respond(n)

SpecApi == InitApi /\ [][NextApi]_vars

(***************************************************************************)
(* Properties.                                                             *)
(***************************************************************************)
Requests == 1..MaxRequests

Range(f) == {f[k] : k \in 1..Len(f)}

\* The rows of tbl that are sample products (whatever id they were given).
SeedValues == {NewRow(0, SeedParams(products[k])) : k \in 1..NumSeed}

SeedRows(tbl) == {r \in tbl : [r EXCEPT !.id = 0] \in SeedValues}

Seeding == "Seeding products table..." \in log

\* initDb is over: it resolved, or it rejected and the process exited.
InitDbSettled == pc \in {"initDone", "listening", "exited"}

\* The step in which the database runs the query of request n.
QueryRuns(n) == reqs[n].st = "query" /\ reqs'[n].st = "settled"

\* C1: once initDb has finished a seeding step, by COMMIT or by ROLLBACK
\* (or by rejecting), the table found empty holds none of the sample rows or
\* all twelve: a run that fails at the k-th insert leaves none of the k-1
\* rows it inserted.
C1_SeedAllOrNothing ==
  (Seeding /\ InitDbSettled) => Cardinality(SeedRows(table)) \in {0, NumSeed}

\* A run whose seed transaction failed after some inserts and was rolled back.
C1_Witness ==
  /\ pc = "initDone"
  /\ "Error seeding products:" \in log
  /\ startups = 1
  /\ seq \in 1..(NumSeed - 1)
  /\ table = {}

\* C2: the server listens, and a handler runs, only after initDb has run to
\* completion: the table exists, the row count was read, the seed
\* transaction (if any) is committed or rolled back and its client released;
\* the table and every unfiltered listing hold none or all of the sample
\* rows.
C2_ListenAfterInit ==
  /\ (\E n \in Requests : reqs[n].kind # "none") => pc = "listening"
  /\ pc = "listening" =>
       /\ tableExists
       /\ count # Null
       /\ ~txOpen
       /\ tx = {}
       /\ ~clientHeld
       /\ Seeding => ("Seed complete." \in log \/ "Error seeding products:" \in log)
       /\ Cardinality(SeedRows(table)) \in {0, NumSeed}
       /\ \A n \in Requests :
            (/\ reqs[n].kind = "GET"
             /\ reqs[n].st \in {"settled", "done"}
             /\ reqs[n].result.ok
             /\ BuildWhere(reqs[n].arg) = <<>>)
            => Cardinality(SeedRows(Range(reqs[n].result.rows))) \in {0, NumSeed}

\* A listing answered by a server that seeded the table at this startup.
C2_Witness ==
  /\ pc = "listening"
  /\ "Seed complete." \in log
  /\ \E n \in Requests :
       /\ reqs[n].kind = "GET"
       /\ reqs[n].st = "done"
       /\ reqs[n].result.ok
       /\ Len(reqs[n].result.rows) >= NumSeed

\* C3 (as claimed): when the table is empty at startup and a step of the
\* seeding fails, the transaction is rolled back, the error is logged,
\* initDb resolves and the process does not exit.
C3_SeedFailureNonFatal ==
  (Seeding /\ InitDbSettled /\ "Seed complete." \notin log) =>
     /\ pc # "exited"
     /\ "Error seeding products:" \in log
     /\ ~txOpen
     /\ tx = {}

\* C4: the seeder inserts the sample set if and only if the row count it
\* read is zero: a startup that counted one or more rows never enters the
\* seed transaction, the sample set is committed at most once over all
\* startups, and a startup after the one that committed it skips seeding.
C4_SeedIffEmpty ==
  /\ seedCommits <= 1
  /\ Cardinality(SeedRows(table)) <= NumSeed
  /\ count # Null => (Seeding <=> Val(count) = 0)
  /\ (count # Null /\ Val(count) > 0) =>
        /\ pc \notin {"connect", "begin", "insert", "commit", "rollback"}
        /\ tx = {}
        /\ "skip seeding" \in log
  /\ (seedCommits = 1 /\ "Seed complete." \notin log /\ count # Null) =>
        /\ Val(count) >= NumSeed
        /\ ~Seeding

\* The second of two successful startups: the first committed the sample
\* set, the second skipped seeding, the set is there once.
C4_Witness ==
  /\ startups = 2
  /\ pc = "listening"
  /\ seedCommits = 1
  /\ "skip seeding" \in log
  /\ Cardinality(SeedRows(table)) = NumSeed

\* C5: the row a successful POST returns has an id greater than every id
\* handed out before (to rows of earlier startups, of rolled back seed
\* transactions and of failed creates alike), and an unfiltered listing
\* that runs after the response of a successful POST contains its row.
C5_FreshIdAndListed ==
  [][ /\ \A n \in Requests :
           (reqs[n].kind = "POST" /\ QueryRuns(n) /\ reqs'[n].result.ok) =>
              \A j \in issued : reqs'[n].result.rows[1].id > j
      /\ \A n \in Requests :
           (/\ reqs[n].kind = "GET"
            /\ QueryRuns(n)
            /\ reqs'[n].result.ok
            /\ BuildWhere(reqs[n].arg) = <<>>) =>
              \A m \in Requests :
                (reqs[m].kind = "POST" /\ reqs[m].st = "done" /\ reqs[m].result.ok) =>
                   reqs[m].resp[1].rows[1] \in Range(reqs'[n].result.rows)
    ]_vars

\* After a rolled back seed run: a create was answered 201, then a listing
\* was issued and returned the created row.
C5_Witness ==
  /\ seq > Cardinality(table)
  /\ \E m, n \in Requests :
       /\ m < n
       /\ reqs[m].kind = "POST"
       /\ reqs[m].st = "done"
       /\ reqs[m].result.ok
       /\ reqs[n].kind = "GET"
       /\ reqs[n].st = "done"
       /\ reqs[n].result.ok
       /\ reqs[m].resp[1].rows[1] \in Range(reqs[n].resp[1].rows)

OmitsRequired(b) == b.name = Null \/ b.price = Null

\* C6: a POST whose body omits name or price fails: its query leaves the
\* rows of the table as they were and the response is 500 with
\* {"error": "Failed to create product"}.
C6_MissingRequiredFails ==
  [][ \A n \in Requests :
        (reqs[n].kind = "POST" /\ OmitsRequired(reqs[n].arg)) =>
           /\ QueryRuns(n) => (table' = table /\ ~reqs'[n].result.ok)
           /\ (reqs[n].st = "settled" /\ reqs'[n].st = "done") =>
                 reqs'[n].resp = <<[status |-> 500, rows |-> <<>>,
                                    error |-> "Failed to create product"]>>
    ]_vars

\* A create that supplied a name but no price was answered 500 and the
\* table is as the seeder left it.
C6_Witness ==
  \E n \in Requests :
    /\ reqs[n].kind = "POST"
    /\ reqs[n].arg.name # Null
    /\ reqs[n].arg.price = Null
    /\ reqs[n].st = "done"
    /\ reqs[n].resp[1].status = 500
    /\ table = SeedTable

\* needle occurs in hay as a substring.
IsSubstring(needle, hay) ==
  \E k \in 0..(Len(hay) - Len(needle)) : SubSeq(hay, k + 1, k + Len(needle)) = needle

\* The rows C7 says a listing returns.
ClaimedMatch(r, q) ==
  /\ q.category = Null \/ q.category = Some("all") \/ r.category = q.category
  /\ q.search = Null \/ IsSubstring(ToLower(Val(q.search)), ToLower(Val(r.name)))

\* C7 (as claimed): a successful GET returns exactly the rows whose category
\* equals the category filter (when present and not "all") and whose
\* lowercased name contains the lowercased search term (when present), in
\* ascending id order.
C7_ListingMatchesFilters ==
  [][ \A n \in Requests :
        (reqs[n].kind = "GET" /\ QueryRuns(n) /\ reqs'[n].result.ok) =>
           reqs'[n].result.rows = OrderById({r \in table : ClaimedMatch(r, reqs[n].arg)})
    ]_vars

\* C8 (as claimed): a successful POST with name and price stores and
\* returns, with status 201, a row whose ext_id is the supplied one (null
\* when omitted) and whose stock is the supplied one (0 when omitted).
C8_DefaultsAndSuppliedValues ==
  \A n \in Requests :
    (/\ reqs[n].kind = "POST"
     /\ ~OmitsRequired(reqs[n].arg)
     /\ reqs[n].st \in {"settled", "done"}
     /\ reqs[n].result.ok) =>
       LET row == reqs[n].result.rows[1] IN
       /\ row \in table
       /\ row.ext_id = reqs[n].arg.ext_id
       /\ row.stock = IF reqs[n].arg.stock = Null THEN Some(0) ELSE reqs[n].arg.stock
       /\ reqs[n].st = "done" =>
            reqs[n].resp = <<[status |-> 201, rows |-> <<row>>, error |-> ""]>>

\* The one response C9 expects of a request whose query gave result.
Expected(kind, result) ==
  IF result.ok
  THEN [status |-> IF kind = "GET" THEN 200 ELSE 201, rows |-> result.rows, error |-> ""]
  ELSE [status |-> 500, rows |-> <<>>,
        error |-> IF kind = "GET" THEN "Failed to fetch products"
                                  ELSE "Failed to create product"]

\* C9: a listening process stays up whatever its requests meet (it leaves
\* "listening" only by being stopped and started again); a request never
\* has more than one response, a finished request has exactly one (200 or
\* 201 on success, 500 with the fixed message on a storage error) which
\* then stands, and a query that fails changes no row.
C9_RequestsIsolated ==
  [][ /\ pc = "listening" => pc' \in {"listening", "createTable"}
      /\ \A n \in Requests :
           /\ Len(reqs'[n].resp) <= 1
           /\ reqs'[n].st = "done" =>
                reqs'[n].resp = <<Expected(reqs'[n].kind, reqs'[n].result)>>
           /\ (reqs[n].st = "done" /\ pc' # "createTable") => reqs'[n] = reqs[n]
           /\ (QueryRuns(n) /\ ~reqs'[n].result.ok) => table' = table
    ]_vars

\* A request was answered 500 and a request that arrived after it was
\* answered 200 or 201 by the same process.
C9_Witness ==
  /\ pc = "listening"
  /\ \E m, n \in Requests :
       /\ m < n
       /\ reqs[m].st = "done"
       /\ reqs[m].resp[1].status = 500
       /\ reqs[n].st = "done"
       /\ reqs[n].resp[1].status \in {200, 201}

\* C10: the server never listens when the CREATE TABLE statement of this
\* startup failed; that failure ends the process with 'DB init failed'.
C10_NoListenWithoutSchema ==
  /\ pc = "listening" => schemaOk
  /\ (pc # "createTable" /\ ~schemaOk) => (pc = "exited" /\ "DB init failed" \in log)

\* CREATE TABLE failed on a database that has the table: the process exited.
C10_Witness ==
  /\ pc = "exited"
  /\ ~schemaOk
  /\ tableExists
  /\ "DB init failed" \in log
====
